---- MODULE Spec2Model ----
(***************************************************************************)
(* Model of the vector-search indexes of local-vectordb                    *)
(* (BruteForceCosineSimilarityIndex, IVFIndex, NSWIndex) and of the        *)
(* Collection that fans mutations out to them.                             *)
(*                                                                         *)
(* Conventions                                                             *)
(*  - a Python dict is a sequence of <<key, value>> pairs in insertion     *)
(*    order; a Python list is a sequence; a Python set is a set;           *)
(*  - an embedding is a sequence of integers, None is the empty sequence;  *)
(*  - a float similarity dot/(|q|*|v|) is kept exactly as the pair         *)
(*    [n |-> dot, d |-> |q|^2 * |v|^2]; d = 0 is the NaN that numpy's 0/0  *)
(*    yields;                                                              *)
(*  - every index operation returns the index after the call together     *)
(*    with the exception the call raised ("none" when it returned).        *)
(***************************************************************************)
EXTENDS Integers, Sequences, FiniteSets, TLC

VARIABLES index, lastOp, outcome, nops, store, indexes, trace, requests,
          running, registered, walk

vars ==
    <<index, lastOp, outcome, nops, store, indexes, trace, requests, running,
      registered, walk>>

---------------------------------------------------------------------------
(* Bounds of the model and the inputs drawn by the actions.               *)

\* calls that change an index, per behaviour
MaxOps == 4
\* the largest `limit` a search is given
MaxLimit == 2
\* ids held in the IVF cluster lists, repetitions counted
MaxMembers == 3
\* the requests the server accepts in one behaviour
MaxRequests == 3

\* the record ids (UUIDs in the program)
Ids == {1, 2}

None == <<>>

\* the embeddings the actions draw from: two orthogonal unit vectors, the
\* opposite of the first, the zero vector and a vector of another dimension
Vecs == {<<1, 0>>, <<0, 1>>, <<0, 0>>, <<1, 0, 0>>}

\* the query vectors (what get_embeddings_bulk returns for the query text)
Queries == {<<1, 0>>, <<0, 1>>, <<-1, 0>>, <<0, 0>>}

\* Chunk records, reduced to the fields the indexes read
Items == [id : Ids, embedding : Vecs \cup {None}]

---------------------------------------------------------------------------
(* Python dict as an insertion-ordered sequence of <<key, value>> pairs.   *)

DictKeys(d) == {d[i][1] : i \in DOMAIN d}

DictHas(d, k) == \E i \in DOMAIN d : d[i][1] = k

DictGet(d, k) == d[CHOOSE i \in DOMAIN d : d[i][1] = k][2]

\* d[k] = v: an existing key keeps its position, a new key goes last
DictSet(d, k, v) ==
    IF DictHas(d, k)
    THEN [i \in DOMAIN d |-> IF d[i][1] = k THEN <<k, v>> ELSE d[i]]
    ELSE Append(d, <<k, v>>)

\* del d[k]
DictDel(d, k) == SelectSeq(d, LAMBDA p : p[1] # k)

\* list[:k] for k >= 0
Take(s, k) == SubSeq(s, 1, IF k < Len(s) THEN k ELSE Len(s))

SeqToSet(s) == {s[i] : i \in DOMAIN s}

Reverse(s) == [i \in DOMAIN s |-> s[Len(s) + 1 - i]]

\* list.remove(x): drops the first occurrence
RemoveFirst(s, x) ==
    LET i == CHOOSE j \in DOMAIN s : s[j] = x /\ \A h \in 1..(j - 1) : s[h] # x
    IN  SubSeq(s, 1, i - 1) \o SubSeq(s, i + 1, Len(s))

---------------------------------------------------------------------------
(* numpy arithmetic on embeddings.                                         *)

RECURSIVE DotUpTo(_, _, _)
DotUpTo(a, b, n) == IF n = 0 THEN 0 ELSE DotUpTo(a, b, n - 1) + a[n] * b[n]

\* np.dot(a, b) on 1-d arrays raises ValueError unless the lengths agree
DotDefined(a, b) == Len(a) = Len(b)

Dot(a, b) == DotUpTo(a, b, Len(a))

\* np.linalg.norm(v) squared; the norm is 0 exactly when this is 0
NormSq(v) == Dot(v, v)

ZeroSim == [n |-> 0, d |-> 1]

\* dot / (|a| * |b|) without any guard: NaN (d = 0) when a norm is zero
RawCosine(a, b) == [n |-> Dot(a, b), d |-> NormSq(a) * NormSq(b)]

IsNaN(s) == s.d = 0

SimIsZero(s) == s.d > 0 /\ s.n = 0

SimIsOne(s) == s.d > 0 /\ s.n > 0 /\ s.n * s.n = s.d

\* the float comparison a < b; every comparison with NaN is False
SimLT(a, b) ==
    IF a.d = 0 \/ b.d = 0 THEN FALSE
    ELSE IF a.n < 0 /\ b.n >= 0 THEN TRUE
    ELSE IF a.n >= 0 /\ b.n < 0 THEN FALSE
    ELSE IF a.n >= 0 THEN a.n * a.n * b.d < b.n * b.n * a.d
    ELSE a.n * a.n * b.d > b.n * b.n * a.d

\* the sort key `x.confidence or 0.0`: 0.0 is falsy and maps to 0.0, NaN and
\* every other float are truthy and map to themselves
SortKey(r) == IF SimIsZero(r.confidence) THEN ZeroSim ELSE r.confidence

\* list.sort on a short list is a binary insertion sort driven by `<`
RECURSIVE BinPos(_, _, _, _)
BinPos(s, pivot, l, r) ==
    IF l >= r THEN l
    ELSE LET p == l + ((r - l) \div 2)
         IN  IF SimLT(SortKey(pivot), SortKey(s[p + 1]))
             THEN BinPos(s, pivot, l, p)
             ELSE BinPos(s, pivot, p + 1, r)

RECURSIVE BinarySort(_, _)
BinarySort(done, todo) ==
    IF todo = <<>> THEN done
    ELSE LET pivot == Head(todo)
             at == BinPos(done, pivot, 0, Len(done))
         IN  BinarySort(SubSeq(done, 1, at) \o <<pivot>>
                            \o SubSeq(done, at + 1, Len(done)),
                        Tail(todo))

\* results.sort(key=lambda x: x.confidence or 0.0, reverse=True): the list is
\* reversed, sorted ascending and stable, and reversed again
SortByConfidenceDesc(results) == Reverse(BinarySort(<<>>, Reverse(results)))

---------------------------------------------------------------------------
(* The index objects.  One record shape serves the three classes; a class  *)
(* leaves the fields of the others at their empty values.                  *)

NoKMeans == [state |-> "none", centers |-> <<>>]

NewBruteForce ==
    [kind |-> "cosine", embeddings |-> <<>>, graph |-> <<>>,
     kmeans |-> NoKMeans, cluster_assignments |-> <<>>,
     n_clusters |-> 0, n_neighbors |-> 0]

NewIVF(n_clusters) ==
    [kind |-> "ivf", embeddings |-> <<>>, graph |-> <<>>,
     kmeans |-> NoKMeans, cluster_assignments |-> <<>>,
     n_clusters |-> n_clusters, n_neighbors |-> 0]

NewNSW(n_neighbors) ==
    [kind |-> "nsw", embeddings |-> <<>>, graph |-> <<>>,
     kmeans |-> NoKMeans, cluster_assignments |-> <<>>,
     n_clusters |-> 0, n_neighbors |-> n_neighbors]

\* what a mutating call leaves behind: the index and the exception raised
Ret(ix, raised) == [ix |-> ix, raised |-> raised]

\* what search gives back: the exception raised, or the result list
Found(value) == [raised |-> "none", value |-> value]

Raised(exc) == [raised |-> exc, value |-> <<>>]

\* `for item in items: if isinstance(item.embedding, list):
\*      self.embeddings[item.id] = np.array(item.embedding)`
RECURSIVE StoreEmbeddings(_, _)
StoreEmbeddings(embeddings, items) ==
    IF items = <<>> THEN embeddings
    ELSE LET item == Head(items)
         IN  StoreEmbeddings(IF item.embedding # None
                             THEN DictSet(embeddings, item.id, item.embedding)
                             ELSE embeddings,
                             Tail(items))

---------------------------------------------------------------------------
(* BruteForceCosineSimilarityIndex                                         *)

\* rebuild that does not clear the map
BFRebuildKeep(ix, items) ==
    Ret([ix EXCEPT !.embeddings = StoreEmbeddings(@, items)], "none")

BFRebuild(ix, items) ==
    Ret([ix EXCEPT !.embeddings = StoreEmbeddings(<<>>, items)], "none")

BFAdd(ix, item) ==
    IF item.embedding # None
    THEN Ret([ix EXCEPT !.embeddings = DictSet(@, item.id, item.embedding)],
             "none")
    ELSE Ret(ix, "none")

\* remove that leaves the map as it is
BFRemoveKeep(ix, item_id) == Ret(ix, "none")

BFRemove(ix, item_id) ==
    IF DictHas(ix.embeddings, item_id)
    THEN Ret([ix EXCEPT !.embeddings = DictDel(@, item_id)], "none")
    ELSE Ret(ix, "none")

BFSearch(ix, query_vec, limit) ==
    IF ix.embeddings = <<>> THEN Found(<<>>)
    ELSE IF NormSq(query_vec) = 0 THEN Found(<<>>)
    ELSE LET scanned == SelectSeq(ix.embeddings, LAMBDA p : NormSq(p[2]) # 0)
         IN  IF \E i \in DOMAIN scanned : ~DotDefined(query_vec, scanned[i][2])
             THEN Raised("ValueError")
             ELSE LET similarities ==
                          [i \in DOMAIN scanned |->
                              [id |-> scanned[i][1],
                               confidence |-> RawCosine(query_vec, scanned[i][2])]]
                  IN  Found(Take(SortByConfidenceDesc(similarities), limit))

---------------------------------------------------------------------------
(* NSWIndex                                                                *)

\* _find_nearest_neighbors returning one neighbor fewer than asked
NSWFindNearestNeighborsShort(embeddings, item_id, embedding, k) ==
    LET scanned == SelectSeq(embeddings,
                             LAMBDA p : p[1] # item_id /\ NormSq(p[2]) # 0)
    IN  IF \E i \in DOMAIN scanned : ~DotDefined(embedding, scanned[i][2])
        THEN Raised("ValueError")
        ELSE LET similarities ==
                     [i \in DOMAIN scanned |->
                         [id |-> scanned[i][1],
                          confidence |->
                              IF NormSq(embedding) * NormSq(scanned[i][2]) = 0
                              THEN ZeroSim
                              ELSE RawCosine(embedding, scanned[i][2])]]
             IN  Found(Take(SortByConfidenceDesc(similarities), k - 1))

\* _find_nearest_neighbors: the k most similar stored vectors other than
\* item_id, zero-norm vectors skipped; np.dot raises on another dimension
NSWFindNearestNeighbors(embeddings, item_id, embedding, k) ==
    LET scanned == SelectSeq(embeddings,
                             LAMBDA p : p[1] # item_id /\ NormSq(p[2]) # 0)
    IN  IF \E i \in DOMAIN scanned : ~DotDefined(embedding, scanned[i][2])
        THEN Raised("ValueError")
        ELSE LET similarities ==
                     [i \in DOMAIN scanned |->
                         [id |-> scanned[i][1],
                          confidence |->
                              IF NormSq(embedding) * NormSq(scanned[i][2]) = 0
                              THEN ZeroSim
                              ELSE RawCosine(embedding, scanned[i][2])]]
             IN  Found(Take(SortByConfidenceDesc(similarities), k))

ResultIds(results) == {results[i].id : i \in DOMAIN results}

\* the second loop of rebuild: one graph entry per stored id, in dict order;
\* the first call that raises ends the rebuild with the graph built so far
RECURSIVE NSWConnect(_, _, _)
NSWConnect(ix, graph, i) ==
    IF i > Len(ix.embeddings) THEN Ret([ix EXCEPT !.graph = graph], "none")
    ELSE LET item_id == ix.embeddings[i][1]
             neighbors == NSWFindNearestNeighbors(ix.embeddings, item_id,
                                                  ix.embeddings[i][2],
                                                  ix.n_neighbors)
         IN  IF neighbors.raised # "none"
             THEN Ret([ix EXCEPT !.graph = graph], neighbors.raised)
             ELSE NSWConnect(ix,
                             DictSet(graph, item_id, ResultIds(neighbors.value)),
                             i + 1)

NSWRebuild(ix, items) ==
    NSWConnect([ix EXCEPT !.embeddings = StoreEmbeddings(<<>>, items)], <<>>, 1)

\* `for neighbor in neighbors: if neighbor.id in self.graph:
\*      self.graph[neighbor.id].add(item.id)`
AddBackEdges(graph, neighbor_ids, item_id) ==
    [i \in DOMAIN graph |->
        IF graph[i][1] \in neighbor_ids
        THEN <<graph[i][1], graph[i][2] \cup {item_id}>>
        ELSE graph[i]]

\* add that leaves the out-neighbors of an id the graph already holds
NSWAddKeepLinks(ix, item) ==
    IF item.embedding = None THEN Ret(ix, "none")
    ELSE LET embeddings == DictSet(ix.embeddings, item.id, item.embedding)
             neighbors == NSWFindNearestNeighbors(embeddings, item.id,
                                                  item.embedding, ix.n_neighbors)
         IN  IF neighbors.raised # "none"
             THEN Ret([ix EXCEPT !.embeddings = embeddings], neighbors.raised)
             ELSE IF DictHas(ix.graph, item.id)
             THEN Ret([ix EXCEPT !.embeddings = embeddings], "none")
             ELSE Ret([ix EXCEPT !.embeddings = embeddings,
                                 !.graph =
                                     AddBackEdges(
                                         DictSet(ix.graph, item.id,
                                                 ResultIds(neighbors.value)),
                                         ResultIds(neighbors.value), item.id)],
                      "none")

NSWAdd(ix, item) ==
    IF item.embedding = None THEN Ret(ix, "none")
    ELSE LET embeddings == DictSet(ix.embeddings, item.id, item.embedding)
             neighbors == NSWFindNearestNeighbors(embeddings, item.id,
                                                  item.embedding, ix.n_neighbors)
         IN  IF neighbors.raised # "none"
             THEN Ret([ix EXCEPT !.embeddings = embeddings], neighbors.raised)
             ELSE LET ids == ResultIds(neighbors.value)
                      graph == DictSet(ix.graph, item.id, ids)
                  IN  Ret([ix EXCEPT !.embeddings = embeddings,
                                     !.graph = AddBackEdges(graph, ids, item.id)],
                          "none")

\* `for neighbor_id in self.graph[item_id]: if neighbor_id in self.graph:
\*      self.graph[neighbor_id].discard(item_id)`, then `del self.graph[item_id]`
NSWRemove(ix, item_id) ==
    LET embeddings == IF DictHas(ix.embeddings, item_id)
                      THEN DictDel(ix.embeddings, item_id)
                      ELSE ix.embeddings
        graph ==
            IF DictHas(ix.graph, item_id)
            THEN LET out == DictGet(ix.graph, item_id)
                     discarded ==
                         [i \in DOMAIN ix.graph |->
                             IF ix.graph[i][1] \in out
                             THEN <<ix.graph[i][1], ix.graph[i][2] \ {item_id}>>
                             ELSE ix.graph[i]]
                 IN  DictDel(discarded, item_id)
            ELSE ix.graph
    IN  Ret([ix EXCEPT !.embeddings = embeddings, !.graph = graph], "none")

\* _cosine_similarity: 0.0 when a norm is zero, else dot / (|a| * |b|)
NSWCosineSimilarity(vec1, vec2) ==
    IF NormSq(vec1) = 0 \/ NormSq(vec2) = 0 THEN ZeroSim
    ELSE RawCosine(vec1, vec2)

\* whether _cosine_similarity reaches np.dot with arrays of unequal length
NSWCosineRaises(vec1, vec2) ==
    NormSq(vec1) # 0 /\ NormSq(vec2) # 0 /\ ~DotDefined(vec1, vec2)

\* max(candidates, key=lambda x: x[0]): the first of the greatest
RECURSIVE MaxIndex(_, _, _)
MaxIndex(candidates, i, best) ==
    IF i > Len(candidates) THEN best
    ELSE MaxIndex(candidates, i + 1,
                  IF SimLT(candidates[best].sim, candidates[i].sim)
                  THEN i ELSE best)

\* the `for neighbor_id in self.graph.get(current_id, set())` loop; the set
\* is walked in ascending id order
RECURSIVE NSWExplore(_, _, _, _, _)
NSWExplore(ix, query_vec, todo, visited, candidates) ==
    IF todo = {}
    THEN [raised |-> "none", visited |-> visited, candidates |-> candidates]
    ELSE LET neighbor_id == CHOOSE x \in todo : \A y \in todo : x <= y
             rest == todo \ {neighbor_id}
         IN  IF neighbor_id \in visited
             THEN NSWExplore(ix, query_vec, rest, visited, candidates)
             ELSE IF ~DictHas(ix.embeddings, neighbor_id)
             THEN [raised |-> "KeyError", visited |-> visited,
                   candidates |-> candidates]
             ELSE IF NSWCosineRaises(query_vec,
                                     DictGet(ix.embeddings, neighbor_id))
             THEN [raised |-> "ValueError", visited |-> visited,
                   candidates |-> candidates]
             ELSE NSWExplore(ix, query_vec, rest, visited \cup {neighbor_id},
                             Append(candidates,
                                    [sim |-> NSWCosineSimilarity(
                                                 query_vec,
                                                 DictGet(ix.embeddings,
                                                         neighbor_id)),
                                     id |-> neighbor_id]))

\* the condition of the `break`: Python reads
\*   `len(best) >= limit and similarity < candidates[0][0] if candidates else True`
\* as `(... and ...) if candidates else True`
NSWStop(candidates, best_candidates, similarity, limit) ==
    IF candidates # <<>>
    THEN Len(best_candidates) >= limit /\ SimLT(similarity, candidates[1].sim)
    ELSE TRUE

\* the `while candidates` loop
RECURSIVE NSWTraverse(_, _, _, _, _, _)
NSWTraverse(ix, query_vec, limit, candidates, visited, best_candidates) ==
    IF candidates = <<>> THEN Found(best_candidates)
    ELSE LET current == candidates[MaxIndex(candidates, 2, 1)]
             remaining == RemoveFirst(candidates, current)
             best == Append(best_candidates,
                            [id |-> current.id, confidence |-> current.sim])
         IN  IF NSWStop(remaining, best, current.sim, limit) THEN Found(best)
             ELSE LET explored ==
                          NSWExplore(ix, query_vec,
                                     IF DictHas(ix.graph, current.id)
                                     THEN DictGet(ix.graph, current.id) ELSE {},
                                     visited, remaining)
                  IN  IF explored.raised # "none" THEN Raised(explored.raised)
                      ELSE NSWTraverse(ix, query_vec, limit,
                                       explored.candidates, explored.visited,
                                       best)

\* search from a given entry point
NSWSearchFrom(ix, query_vec, limit, entry_point) ==
    IF ~DictHas(ix.embeddings, entry_point) THEN Raised("KeyError")
    ELSE IF NSWCosineRaises(query_vec, DictGet(ix.embeddings, entry_point))
    THEN Raised("ValueError")
    ELSE LET found ==
                 NSWTraverse(ix, query_vec, limit,
                             <<[sim |-> NSWCosineSimilarity(
                                            query_vec,
                                            DictGet(ix.embeddings, entry_point)),
                                id |-> entry_point]>>,
                             {entry_point}, <<>>)
         IN  IF found.raised # "none" THEN found
             ELSE Found(Take(SortByConfidenceDesc(found.value), limit))

\* search: the entry point is `next(iter(self.graph.keys()))`, the first key
NSWSearch(ix, query_vec, limit) ==
    IF ix.embeddings = <<>> THEN Found(<<>>)
    ELSE IF NormSq(query_vec) = 0 THEN Found(<<>>)
    ELSE IF ix.graph = <<>> THEN Raised("StopIteration")
    ELSE NSWSearchFrom(ix, query_vec, limit, ix.graph[1][1])

---------------------------------------------------------------------------
(* sklearn.cluster.KMeans as IVFIndex uses it.  A centroid is the mean of  *)
(* its members, kept exactly as [s |-> sum of the members, c |-> count].   *)
(* fit is Lloyd's iteration from the first k rows: the library's seeded    *)
(* initialisation (random_state=42) picks other rows, which renumbers the  *)
(* clusters, but like it the result is a function of the input alone.      *)
(* Cluster ids are 1..k here, 0..k-1 in the library.                       *)

NProbe == 3

RECURSIVE SqDistUpTo(_, _, _)
SqDistUpTo(p, cen, n) ==
    IF n = 0 THEN 0
    ELSE SqDistUpTo(p, cen, n - 1)
             + (cen.c * p[n] - cen.s[n]) * (cen.c * p[n] - cen.s[n])

\* |p - c1| < |p - c2|, both sides scaled by (c1.c * c2.c)^2
DistLT(p, c1, c2) ==
    SqDistUpTo(p, c1, Len(p)) * c2.c * c2.c
        < SqDistUpTo(p, c2, Len(p)) * c1.c * c1.c

\* argmin of the distances: the first of the nearest centroids
NearestCenter(centers, p) ==
    CHOOSE j \in DOMAIN centers :
        \A h \in DOMAIN centers :
            /\ h < j => DistLT(p, centers[j], centers[h])
            /\ h > j => ~DistLT(p, centers[h], centers[j])

\* np.argsort(cluster_dists): cluster ids by ascending distance, ties in
\* id order
ArgSortDists(centers, p) ==
    LET Before(h, j) == \/ DistLT(p, centers[h], centers[j])
                        \/ /\ ~DistLT(p, centers[j], centers[h])
                           /\ h < j
        Rank(j) == 1 + Cardinality({h \in DOMAIN centers : Before(h, j)})
    IN  [pos \in DOMAIN centers |->
            CHOOSE j \in DOMAIN centers : Rank(j) = pos]

RECURSIVE VecSum(_, _)
VecSum(X, members) ==
    IF Cardinality(members) = 1
    THEN X[CHOOSE i \in members : TRUE]
    ELSE LET i == CHOOSE m \in members : TRUE
             rest == VecSum(X, members \ {i})
         IN  [d \in DOMAIN rest |-> rest[d] + X[i][d]]

RECURSIVE Lloyd(_, _, _)
Lloyd(X, centers, fuel) ==
    LET labels == [i \in DOMAIN X |-> NearestCenter(centers, X[i])]
        moved == [j \in DOMAIN centers |->
                     LET members == {i \in DOMAIN X : labels[i] = j}
                     IN  IF members = {} THEN centers[j]
                         ELSE [s |-> VecSum(X, members),
                               c |-> Cardinality(members)]]
    IN  IF moved = centers \/ fuel = 0 THEN centers
        ELSE Lloyd(X, moved, fuel - 1)

\* KMeans(n_clusters=k, random_state=42).fit(X), k <= len(X)
KMeansFit(X, k) ==
    [state |-> "fitted",
     centers |-> Lloyd(X, [j \in 1..k |-> [s |-> X[j], c |-> 1]], 300)]

\* whether kmeans.predict(p) raises, and what
PredictRaises(kmeans, p) ==
    IF kmeans.state # "fitted" THEN "NotFittedError"
    ELSE IF Len(kmeans.centers[1].s) # Len(p) THEN "ValueError"
    ELSE "none"

---------------------------------------------------------------------------
(* IVFIndex                                                                *)

\* `if cluster_id not in self.cluster_assignments: ... = []`, then append
AppendMember(cluster_assignments, cluster_id, item_id) ==
    IF DictHas(cluster_assignments, cluster_id)
    THEN DictSet(cluster_assignments, cluster_id,
                 Append(DictGet(cluster_assignments, cluster_id), item_id))
    ELSE Append(cluster_assignments, <<cluster_id, <<item_id>>>>)

\* the last loop of rebuild
RECURSIVE IVFAssign(_, _, _, _)
IVFAssign(ix, valid_items, cluster_ids, i) ==
    IF i > Len(valid_items) THEN ix
    ELSE IVFAssign([ix EXCEPT
                       !.cluster_assignments =
                           AppendMember(@, cluster_ids[i], valid_items[i].id),
                       !.embeddings =
                           DictSet(@, valid_items[i].id,
                                   valid_items[i].embedding)],
                   valid_items, cluster_ids, i + 1)

\* rebuild that clears the embedding map alone and keeps the member lists
IVFRebuildKeepLists(ix, items) ==
    LET cleared == [ix EXCEPT !.embeddings = <<>>]
        valid_items == SelectSeq(items, LAMBDA item : item.embedding # None)
    IN  IF valid_items = <<>> THEN Ret(cleared, "none")
        ELSE IF \E i, j \in DOMAIN valid_items :
                    Len(valid_items[i].embedding) # Len(valid_items[j].embedding)
        THEN Ret(cleared, "ValueError")
        ELSE LET X == [i \in DOMAIN valid_items |-> valid_items[i].embedding]
                 n_clusters == IF ix.n_clusters < Len(X)
                               THEN ix.n_clusters ELSE Len(X)
                 kmeans == KMeansFit(X, n_clusters)
                 cluster_ids == [i \in DOMAIN X |->
                                    NearestCenter(kmeans.centers, X[i])]
             IN  Ret(IVFAssign([cleared EXCEPT !.kmeans = kmeans],
                               valid_items, cluster_ids, 1),
                     "none")

\* rebuild; np.array raises on rows of unequal length (numpy >= 1.24),
\* after the two maps were cleared and before self.kmeans is assigned
IVFRebuild(ix, items) ==
    LET cleared == [ix EXCEPT !.cluster_assignments = <<>>,
                              !.embeddings = <<>>]
        valid_items == SelectSeq(items, LAMBDA item : item.embedding # None)
    IN  IF valid_items = <<>> THEN Ret(cleared, "none")
        ELSE IF \E i, j \in DOMAIN valid_items :
                    Len(valid_items[i].embedding) # Len(valid_items[j].embedding)
        THEN Ret(cleared, "ValueError")
        ELSE LET X == [i \in DOMAIN valid_items |-> valid_items[i].embedding]
                 n_clusters == IF ix.n_clusters < Len(X)
                               THEN ix.n_clusters ELSE Len(X)
                 kmeans == KMeansFit(X, n_clusters)
                 cluster_ids == [i \in DOMAIN X |->
                                    NearestCenter(kmeans.centers, X[i])]
             IN  Ret(IVFAssign([cleared EXCEPT !.kmeans = kmeans],
                               valid_items, cluster_ids, 1),
                     "none")

\* add; KMeans.fit on the single row raises unless n_clusters is 1, and
\* self.kmeans then stays the unfitted estimator
IVFAdd(ix, item) ==
    IF item.embedding = None THEN Ret(ix, "none")
    ELSE LET trained ==
                 IF ix.kmeans.state # "none" THEN ix
                 ELSE IF ix.n_clusters # 1
                 THEN [ix EXCEPT !.kmeans = [state |-> "unfitted",
                                             centers |-> <<>>]]
                 ELSE [ix EXCEPT !.kmeans = KMeansFit(<<item.embedding>>, 1)]
         IN  IF ix.kmeans.state = "none" /\ ix.n_clusters # 1
             THEN Ret(trained, "ValueError")
             ELSE IF PredictRaises(trained.kmeans, item.embedding) # "none"
             THEN Ret(trained, PredictRaises(trained.kmeans, item.embedding))
             ELSE LET cluster_id == NearestCenter(trained.kmeans.centers,
                                                  item.embedding)
                  IN  Ret([trained EXCEPT
                              !.cluster_assignments =
                                  AppendMember(@, cluster_id, item.id),
                              !.embeddings =
                                  DictSet(@, item.id, item.embedding)],
                          "none")

\* the `for cluster_ids in self.cluster_assignments.values()` loop of remove:
\* the first list that holds the id loses its first occurrence
RemoveMember(cluster_assignments, item_id) ==
    IF \E i \in DOMAIN cluster_assignments :
           item_id \in SeqToSet(cluster_assignments[i][2])
    THEN LET first == CHOOSE i \in DOMAIN cluster_assignments :
                          /\ item_id \in SeqToSet(cluster_assignments[i][2])
                          /\ \A h \in 1..(i - 1) :
                                 item_id \notin
                                     SeqToSet(cluster_assignments[h][2])
         IN  [cluster_assignments EXCEPT
                 ![first] = <<@[1], RemoveFirst(@[2], item_id)>>]
    ELSE cluster_assignments

IVFRemove(ix, item_id) ==
    IF ~DictHas(ix.embeddings, item_id) THEN Ret(ix, "none")
    ELSE Ret([ix EXCEPT
                 !.cluster_assignments = RemoveMember(@, item_id),
                 !.embeddings = DictDel(@, item_id)],
             "none")

\* the clusters search probes: the n_probe nearest centroids
IVFProbed(ix, query_vec) ==
    LET n_probe == IF NProbe < Len(ix.cluster_assignments)
                   THEN NProbe ELSE Len(ix.cluster_assignments)
    IN  Take(ArgSortDists(ix.kmeans.centers, query_vec), n_probe)

\* `for cluster_id in nearest_clusters: if cluster_id in
\*      self.cluster_assignments: candidates.extend(...)`
RECURSIVE IVFCandidates(_, _)
IVFCandidates(cluster_assignments, nearest_clusters) ==
    IF nearest_clusters = <<>> THEN <<>>
    ELSE (IF DictHas(cluster_assignments, Head(nearest_clusters))
          THEN DictGet(cluster_assignments, Head(nearest_clusters))
          ELSE <<>>)
         \o IVFCandidates(cluster_assignments, Tail(nearest_clusters))

IVFSearch(ix, query_vec, limit) ==
    IF ix.kmeans.state = "none" \/ ix.embeddings = <<>> THEN Found(<<>>)
    ELSE IF PredictRaises(ix.kmeans, query_vec) # "none"
    THEN Raised(PredictRaises(ix.kmeans, query_vec))
    ELSE LET candidates == IVFCandidates(ix.cluster_assignments,
                                         IVFProbed(ix, query_vec))
             scored == SelectSeq(candidates,
                                 LAMBDA item_id : DictHas(ix.embeddings, item_id))
         IN  IF candidates = <<>> THEN Found(<<>>)
             ELSE IF \E i \in DOMAIN scored :
                         ~DotDefined(query_vec,
                                     DictGet(ix.embeddings, scored[i]))
             THEN Raised("ValueError")
             ELSE LET results ==
                          [i \in DOMAIN scored |->
                              [id |-> scored[i],
                               confidence |->
                                   RawCosine(query_vec,
                                             DictGet(ix.embeddings, scored[i]))]]
                  IN  Found(Take(SortByConfidenceDesc(results), limit))

---------------------------------------------------------------------------
(* The Index interface: each call goes to the class of the object.         *)

IndexRebuild(ix, items) ==
    CASE ix.kind = "cosine" -> BFRebuild(ix, items)
      [] ix.kind = "ivf" -> IVFRebuild(ix, items)
      [] ix.kind = "nsw" -> NSWRebuild(ix, items)

IndexAdd(ix, item) ==
    CASE ix.kind = "cosine" -> BFAdd(ix, item)
      [] ix.kind = "ivf" -> IVFAdd(ix, item)
      [] ix.kind = "nsw" -> NSWAdd(ix, item)

IndexRemove(ix, item_id) ==
    CASE ix.kind = "cosine" -> BFRemove(ix, item_id)
      [] ix.kind = "ivf" -> IVFRemove(ix, item_id)
      [] ix.kind = "nsw" -> NSWRemove(ix, item_id)

IndexSearch(ix, query_vec, limit) ==
    CASE ix.kind = "cosine" -> BFSearch(ix, query_vec, limit)
      [] ix.kind = "ivf" -> IVFSearch(ix, query_vec, limit)
      [] ix.kind = "nsw" -> NSWSearch(ix, query_vec, limit)

---------------------------------------------------------------------------
(* Specification Spec: one index object of any of the three classes, under *)
(* any sequence of rebuild, add, remove and search calls.                  *)

\* the constructor arguments tried: IVFIndex(n_clusters), NSWIndex(n_neighbors)
NClustersChoices == {1, 100}

NNeighborsChoices == {1, 5}

\* the snapshots handed to rebuild: any records with distinct ids, in id order
RECURSIVE SnapshotsOver(_)
SnapshotsOver(ids) ==
    IF ids = {} THEN {<<>>}
    ELSE LET i == CHOOSE x \in ids : \A y \in ids : x <= y
             rest == SnapshotsOver(ids \ {i})
         IN  rest \cup {<<[id |-> i, embedding |-> e]>> \o s :
                           e \in Vecs \cup {None}, s \in rest}

Snapshots == SnapshotsOver(Ids)

NoItem == [id |-> 0, embedding |-> None]

\* the latest call: its name and arguments (the unused ones at their empty
\* values)
Op(op, item, items, query, limit) ==
    [op |-> op, tag |-> "", item |-> item, items |-> items, query |-> query,
     limit |-> limit]

CollOp(op, tag, item) ==
    [op |-> op, tag |-> tag, item |-> item, items |-> <<>>, query |-> None,
     limit |-> 0]

\* ids held in IVF cluster lists, with repetitions
MemberCount(ix) ==
    LET RECURSIVE Count(_)
        Count(i) == IF i = 0 THEN 0
                    ELSE Count(i - 1) + Len(ix.cluster_assignments[i][2])
    IN  Count(Len(ix.cluster_assignments))

\* `collections["chunks"]` of main.py is the object that the global `chunks`
\* names: its indexes are `indexes`
SameCollection == [aliased |-> TRUE, indexes |-> <<>>]

\* `collections["chunks"]` is another object than the global `chunks`, with
\* indexes of its own
OtherCollection(idxs) == [aliased |-> FALSE, indexes |-> idxs]

\* the indexes of the collection the query endpoint searches
QueriedIndexes ==
    IF registered.aliased THEN indexes ELSE registered.indexes

\* no search of the step-wise NSW search is under way
Idle ==
    [pc |-> "idle", candidates |-> <<>>, visited |-> {},
     best_candidates |-> <<>>, iterations |-> 0]

Init ==
    /\ index \in {NewBruteForce}
                     \cup {NewIVF(k) : k \in NClustersChoices}
                     \cup {NewNSW(m) : m \in NNeighborsChoices}
    /\ lastOp = Op("init", NoItem, <<>>, None, 0)
    /\ outcome = Found(<<>>)
    /\ nops = 0
    /\ store = <<>>
    /\ indexes = <<>>
    /\ trace = <<>>
    /\ requests = <<>>
    /\ running = 0
    /\ registered = SameCollection
    /\ walk = Idle

Rebuild(items) ==
    /\ lastOp.op = "init"
    /\ nops < MaxOps
    /\ LET done == IndexRebuild(index, items)
       IN  /\ index' = done.ix
           /\ outcome' = Raised(done.raised)
    /\ lastOp' = Op("rebuild", NoItem, items, None, 0)
    /\ nops' = nops + 1
    /\ UNCHANGED <<store, indexes, trace, requests, running, registered, walk>>

Add(item) ==
    /\ lastOp.op = "init"
    /\ nops < MaxOps
    /\ MemberCount(index) < MaxMembers
    /\ LET done == IndexAdd(index, item)
       IN  /\ index' = done.ix
           /\ outcome' = Raised(done.raised)
    /\ lastOp' = Op("add", item, <<>>, None, 0)
    /\ nops' = nops + 1
    /\ UNCHANGED <<store, indexes, trace, requests, running, registered, walk>>

Remove(item_id) ==
    /\ lastOp.op = "init"
    /\ nops < MaxOps
    /\ LET done == IndexRemove(index, item_id)
       IN  /\ index' = done.ix
           /\ outcome' = Raised(done.raised)
    /\ lastOp' = Op("remove", [id |-> item_id, embedding |-> None], <<>>,
                    None, 0)
    /\ nops' = nops + 1
    /\ UNCHANGED <<store, indexes, trace, requests, running, registered, walk>>

Search(query_vec, limit) ==
    /\ lastOp.op = "init"
    /\ outcome' = IndexSearch(index, query_vec, limit)
    /\ lastOp' = Op("search", NoItem, <<>>, query_vec, limit)
    /\ UNCHANGED <<index, nops, store, indexes, trace, requests, running,
                   registered, walk>>

\* lastOp and outcome observe the latest call; the caller drops them before
\* its next call, so the calls that follow are explored once per index state
Forget ==
    /\ lastOp.op # "init"
    /\ lastOp' = Op("init", NoItem, <<>>, None, 0)
    /\ outcome' = Found(<<>>)
    /\ trace' = <<>>
    /\ UNCHANGED <<index, nops, store, indexes, requests, running,
                   registered, walk>>

Next ==
    \/ Forget
    \/ \E items \in Snapshots : Rebuild(items)
    \/ \E item \in Items : Add(item)
    \/ \E item_id \in Ids : Remove(item_id)
    \/ \E query_vec \in Queries, limit \in 0..MaxLimit : Search(query_vec, limit)

Spec == Init /\ [][Next]_vars

\* Specification SpecAdds: an index built by add calls alone, and searched.
NextAdds ==
    \/ Forget
    \/ \E item \in Items : Add(item)
    \/ \E query_vec \in Queries, limit \in 0..MaxLimit : Search(query_vec, limit)

SpecAdds == Init /\ [][NextAdds]_vars

\* Specification SpecBuild: an NSWIndex rebuilt on snapshots of up to three
\* records.
BuildIds == {1, 2, 3}

InitBuild ==
    /\ Init
    /\ index.kind = "nsw"

NextBuild ==
    \/ Forget
    \/ \E items \in SnapshotsOver(BuildIds) : Rebuild(items)

SpecBuild == InitBuild /\ [][NextBuild]_vars

\* Specification SpecIVF: an IVFIndex with the default n_clusters, rebuilt,
\* added to and searched over three ids, so that it can hold more centroids
\* than search probes clusters with members.
IVFVecs == {<<1, 0>>, <<0, 1>>, <<0, 0>>}

\* the empty snapshot and the snapshots of all three records
IVFSnapshots ==
    {items \in SnapshotsOver(BuildIds) :
        /\ Len(items) \in {0, 3}
        /\ \A i \in DOMAIN items : items[i].embedding \in IVFVecs}

InitIVF ==
    /\ Init
    /\ index = NewIVF(100)

NextIVF ==
    \/ Forget
    \/ \E items \in IVFSnapshots : Rebuild(items)
    \/ \E item \in [id : BuildIds, embedding : IVFVecs] : Add(item)
    \/ \E query_vec \in Queries, limit \in 0..MaxLimit : Search(query_vec, limit)

SpecIVF == InitIVF /\ [][NextIVF]_vars

\* Specification SpecWalk: an NSWIndex over three ids that is rebuilt, added
\* to and removed from, and whose search runs one iteration of its
\* `while candidates` loop per step; `walk` holds the local variables of the
\* search that is under way.
WalkVecs == {<<1, 0>>, <<0, 1>>, <<0, 0>>}

WalkSnapshots ==
    {items \in SnapshotsOver(BuildIds) :
        /\ Len(items) \in {2, 3}
        /\ \A i \in DOMAIN items : items[i].embedding \in WalkVecs}

\* the embeddings of the query texts
WalkQueries == {<<1, 0>>, <<0, 1>>, <<0, 0>>}

\* the iterations a search is followed for
MaxIterations == 4

InitWalk ==
    /\ Init
    /\ index.kind = "nsw"

\* search up to the loop: the early returns, the entry point and its
\* similarity
WalkStart(query_vec, limit) ==
    /\ lastOp.op = "init"
    /\ walk.pc = "idle"
    /\ lastOp' = Op("search", NoItem, <<>>, query_vec, limit)
    /\ LET returned ==
               IF index.embeddings = <<>> \/ NormSq(query_vec) = 0
               THEN Found(<<>>)
               ELSE IF index.graph = <<>> THEN Raised("StopIteration")
               ELSE IF ~DictHas(index.embeddings, index.graph[1][1])
               THEN Raised("KeyError")
               ELSE IF NSWCosineRaises(query_vec,
                                       DictGet(index.embeddings,
                                               index.graph[1][1]))
               THEN Raised("ValueError")
               ELSE Found(<<>>)
           entered ==
               /\ index.embeddings # <<>>
               /\ NormSq(query_vec) # 0
               /\ returned.raised = "none"
       IN  IF entered
           THEN /\ walk' =
                       [pc |-> "loop",
                        candidates |->
                            <<[sim |-> NSWCosineSimilarity(
                                           query_vec,
                                           DictGet(index.embeddings,
                                                   index.graph[1][1])),
                               id |-> index.graph[1][1]]>>,
                        visited |-> {index.graph[1][1]},
                        best_candidates |-> <<>>, iterations |-> 0]
                /\ UNCHANGED outcome
           ELSE /\ walk' = [Idle EXCEPT !.pc = "done"]
                /\ outcome' = returned
    /\ UNCHANGED <<index, nops, store, indexes, trace, requests, running,
                   registered>>

\* the candidates of an iteration that leaves the chosen one in the list
KeepChosen(candidates, current) == candidates

\* `candidates.remove((similarity, current_id))`
DropChosen(candidates, current) == RemoveFirst(candidates, current)

\* one iteration of `while candidates`: the best candidate is taken out and
\* appended to the results, then the loop breaks or the neighbors of the
\* candidate are explored
WalkStep ==
    /\ walk.pc = "loop"
    /\ walk.candidates # <<>>
    /\ walk.iterations < MaxIterations
    /\ LET current == walk.candidates[MaxIndex(walk.candidates, 2, 1)]
           remaining == DropChosen(walk.candidates, current)
           best == Append(walk.best_candidates,
                          [id |-> current.id, confidence |-> current.sim])
           explored ==
               NSWExplore(index, lastOp.query,
                          IF DictHas(index.graph, current.id)
                          THEN DictGet(index.graph, current.id) ELSE {},
                          walk.visited, remaining)
       IN  IF NSWStop(remaining, best, current.sim, lastOp.limit)
           THEN /\ walk' = [walk EXCEPT !.pc = "break",
                                       !.candidates = remaining,
                                       !.best_candidates = best,
                                       !.iterations = @ + 1]
                /\ UNCHANGED outcome
           ELSE IF explored.raised # "none"
           THEN /\ walk' = [walk EXCEPT !.pc = "done",
                                       !.candidates = remaining,
                                       !.best_candidates = best,
                                       !.iterations = @ + 1]
                /\ outcome' = Raised(explored.raised)
           ELSE /\ walk' = [walk EXCEPT !.candidates = explored.candidates,
                                       !.visited = explored.visited,
                                       !.best_candidates = best,
                                       !.iterations = @ + 1]
                /\ UNCHANGED outcome
    /\ UNCHANGED <<index, lastOp, nops, store, indexes, trace, requests,
                   running, registered>>

\* the loop has ended: the results are sorted and cut to the limit
WalkReturn ==
    /\ \/ walk.pc = "break"
       \/ walk.pc = "loop" /\ walk.candidates = <<>>
    /\ walk' = [walk EXCEPT !.pc = "done"]
    /\ outcome' = Found(Take(SortByConfidenceDesc(walk.best_candidates),
                             lastOp.limit))
    /\ UNCHANGED <<index, lastOp, nops, store, indexes, trace, requests,
                   running, registered>>

\* the caller drops the result of the call that has returned
WalkForget ==
    /\ lastOp.op # "init"
    /\ walk.pc \in {"idle", "done"}
    /\ lastOp' = Op("init", NoItem, <<>>, None, 0)
    /\ outcome' = Found(<<>>)
    /\ walk' = Idle
    /\ UNCHANGED <<index, nops, store, indexes, trace, requests, running,
                   registered>>

NextWalk ==
    \/ WalkForget
    \/ \E items \in WalkSnapshots : Rebuild(items)
    \/ \E item \in [id : BuildIds, embedding : WalkVecs] : Add(item)
    \/ \E item_id \in BuildIds : Remove(item_id)
    \/ \E query_vec \in WalkQueries, limit \in 0..MaxLimit :
           WalkStart(query_vec, limit)
    \/ WalkStep
    \/ WalkReturn

\* a search that has begun is carried on
SpecWalk ==
    /\ InitWalk
    /\ [][NextWalk]_vars
    /\ WF_vars(WalkStep)
    /\ WF_vars(WalkReturn)

---------------------------------------------------------------------------
(* Collection: one JSON file per record, and the attached indexes.  Every  *)
(* call returns the files and the indexes after the call, the calls it     *)
(* made on the files and on the indexes in the order it made them, the     *)
(* exception it raised and the value it returned.                          *)

Event(call, target) == [call |-> call, target |-> target]

Done(files, idxs, calls, raised, value) ==
    [store |-> files, indexes |-> idxs, trace |-> calls, raised |-> raised,
     value |-> value]

\* list_all: the records of the files, in the order of the directory listing
\* (taken to be the order in which the files were created)
ListAll(files) == [i \in DOMAIN files |-> files[i][2]]

\* get / _load_record: the record of the file, None without the file
Get(files, item_id) ==
    IF DictHas(files, item_id) THEN DictGet(files, item_id) ELSE NoItem

\* _save_record
SaveRecord(files, item) == DictSet(files, item.id, item)

\* `for index in self.indexes.values(): index.add(item)`; the first call
\* that raises ends the loop
RECURSIVE NotifyAdd(_, _, _, _)
NotifyAdd(idxs, item, i, calls) ==
    IF i > Len(idxs) THEN [indexes |-> idxs, trace |-> calls, raised |-> "none"]
    ELSE LET done == IndexAdd(idxs[i][2], item)
             after == [idxs EXCEPT ![i] = <<idxs[i][1], done.ix>>]
             called == Append(calls, Event("add", idxs[i][1]))
         IN  IF done.raised # "none"
             THEN [indexes |-> after, trace |-> called, raised |-> done.raised]
             ELSE NotifyAdd(after, item, i + 1, called)

\* `for index in self.indexes.values(): index.remove(item_id)`
RECURSIVE NotifyRemove(_, _, _, _)
NotifyRemove(idxs, item_id, i, calls) ==
    IF i > Len(idxs) THEN [indexes |-> idxs, trace |-> calls, raised |-> "none"]
    ELSE LET done == IndexRemove(idxs[i][2], item_id)
             after == [idxs EXCEPT ![i] = <<idxs[i][1], done.ix>>]
             called == Append(calls, Event("remove", idxs[i][1]))
         IN  IF done.raised # "none"
             THEN [indexes |-> after, trace |-> called, raised |-> done.raised]
             ELSE NotifyRemove(after, item_id, i + 1, called)

\* `for index in self.indexes.values(): index.remove(item_id);
\*      index.add(updated_item)`
RECURSIVE NotifyUpdate(_, _, _, _)
NotifyUpdate(idxs, item, i, calls) ==
    IF i > Len(idxs) THEN [indexes |-> idxs, trace |-> calls, raised |-> "none"]
    ELSE LET removed == IndexRemove(idxs[i][2], item.id)
             called == Append(calls, Event("remove", idxs[i][1]))
         IN  IF removed.raised # "none"
             THEN [indexes |-> [idxs EXCEPT ![i] = <<idxs[i][1], removed.ix>>],
                   trace |-> called, raised |-> removed.raised]
             ELSE LET added == IndexAdd(removed.ix, item)
                      after == [idxs EXCEPT ![i] = <<idxs[i][1], added.ix>>]
                      both == Append(called, Event("add", idxs[i][1]))
                  IN  IF added.raised # "none"
                      THEN [indexes |-> after, trace |-> both,
                            raised |-> added.raised]
                      ELSE NotifyUpdate(after, item, i + 1, both)

\* add_index that attaches the index as it is
CollectionAddIndexNoRebuild(files, idxs, tag, ix) ==
    Done(files, DictSet(idxs, tag, ix), <<>>, "none", None)

\* Collection.add_index: the index takes the place of the tag in the dict
\* and is rebuilt on the records of the files
CollectionAddIndex(files, idxs, tag, ix) ==
    LET done == IndexRebuild(ix, ListAll(files))
    IN  Done(files, DictSet(idxs, tag, done.ix),
             <<Event("rebuild", tag)>>, done.raised, None)

\* add that notifies the indexes before it writes the file
CollectionAddIndexesFirst(files, idxs, item) ==
    LET saved == SaveRecord(files, item)
        told == NotifyAdd(idxs, item, 1, <<>>)
    IN  Done(saved, told.indexes, Append(told.trace, Event("save", "store")),
             told.raised, item)

\* Collection.add
CollectionAdd(files, idxs, item) ==
    LET saved == SaveRecord(files, item)
        told == NotifyAdd(idxs, item, 1, <<Event("save", "store")>>)
    IN  Done(saved, told.indexes, told.trace, told.raised, item)

\* a value of update_data that is not an embedding: the one-element
\* sequence of the value, None being the empty one
Some(v) == <<v>>

\* the value update_data gives the field
UpdateValue(update_data, key) ==
    IF key = "embedding" THEN update_data[key] ELSE update_data[key][1]

\* the partial update that lets update_data overwrite every field
ApplyUpdateAllKeys(existing_item, update_data) ==
    [key \in DOMAIN existing_item |->
        IF key \in DOMAIN update_data /\ update_data[key] # None
        THEN UpdateValue(update_data, key)
        ELSE existing_item[key]]

\* the loop of Collection.update over update_data: the keys id and
\* created_at are skipped, a value of None is ignored
ApplyUpdate(existing_item, update_data) ==
    [key \in DOMAIN existing_item |->
        IF /\ key \in DOMAIN update_data
           /\ key \notin {"id", "created_at"}
           /\ update_data[key] # None
        THEN UpdateValue(update_data, key)
        ELSE existing_item[key]]

\* Collection.update; updated_at becomes the time of the update, which is
\* later (1) than the time of the creation (0)
CollectionUpdate(files, idxs, item_id, update_data) ==
    IF ~DictHas(files, item_id) THEN Done(files, idxs, <<>>, "none", NoItem)
    ELSE LET existing_item == Get(files, item_id)
             updated_item ==
                 [ApplyUpdate(existing_item, update_data)
                      EXCEPT !.updated_at = 1]
             saved == SaveRecord(files, updated_item)
             told == NotifyUpdate(idxs, updated_item, 1,
                                  <<Event("save", "store")>>)
         IN  Done(saved, told.indexes, told.trace, told.raised, updated_item)

\* Collection.delete; unlink of a missing file raises FileNotFoundError,
\* which delete turns into the return value False
CollectionDelete(files, idxs, item_id) ==
    LET told == NotifyRemove(idxs, item_id, 1, <<>>)
    IN  IF told.raised # "none"
        THEN Done(files, told.indexes, told.trace, told.raised, FALSE)
        ELSE Done(DictDel(files, item_id), told.indexes,
                  Append(told.trace, Event("unlink", "store")), "none",
                  DictHas(files, item_id))

\* the join with the results in the opposite order
FullResultsReversed(files, search_results) ==
    LET kept == SelectSeq(search_results, LAMBDA r : DictHas(files, r.id))
    IN  [i \in DOMAIN kept |->
            [id |-> kept[Len(kept) + 1 - i].id,
             confidence |-> kept[Len(kept) + 1 - i].confidence,
             content |-> Get(files, kept[Len(kept) + 1 - i].id).content]]

\* the join of Collection.search: the results whose record file exists, each
\* with the content of the record
FullResults(files, search_results) ==
    LET kept == SelectSeq(search_results, LAMBDA r : DictHas(files, r.id))
    IN  [i \in DOMAIN kept |->
            [id |-> kept[i].id, confidence |-> kept[i].confidence,
             content |-> Get(files, kept[i].id).content]]

\* search that falls back to the first attached index for an unknown tag
CollectionSearchAny(files, idxs, index_type, query, limit) ==
    IF idxs = <<>> THEN Done(files, idxs, <<>>, "KeyError", <<>>)
    ELSE LET tag == IF DictHas(idxs, index_type) THEN index_type
                    ELSE idxs[1][1]
             found == IndexSearch(DictGet(idxs, tag), query, limit)
             calls == <<Event("search", tag)>>
         IN  IF found.raised # "none"
             THEN Done(files, idxs, calls, found.raised, <<>>)
             ELSE Done(files, idxs, calls, "none",
                       FullResults(files, found.value))

\* Collection.search
CollectionSearch(files, idxs, index_type, query, limit) ==
    IF ~DictHas(idxs, index_type)
    THEN Done(files, idxs, <<>>, "KeyError", <<>>)
    ELSE LET found == IndexSearch(DictGet(idxs, index_type), query, limit)
             calls == <<Event("search", index_type)>>
         IN  IF found.raised # "none"
             THEN Done(files, idxs, calls, found.raised, <<>>)
             ELSE Done(files, idxs, calls, "none",
                       FullResults(files, found.value))

\* the status of the query endpoint of main.py for a collection with these
\* files and indexes: 400 for a tag that is not attached, 500 when the
\* search raises
QueryStatus(files, idxs, index_type, query, limit) ==
    IF ~DictHas(idxs, index_type) THEN 400
    ELSE IF CollectionSearch(files, idxs, index_type, query, limit).raised
                # "none"
    THEN 500
    ELSE 200

---------------------------------------------------------------------------
(* Specification SpecColl: calls on one Collection, which starts without   *)
(* files and without indexes.                                              *)

\* the tags and the index objects main.py attaches under them
Attachable ==
    {<<"cosine", NewBruteForce>>}
        \cup {<<"ivf", NewIVF(k)>> : k \in NClustersChoices}
        \cup {<<"nsw", NewNSW(m)>> : m \in NNeighborsChoices}

\* the update data: an embedding alone, or all of id, created_at, content
\* and embedding
Updates ==
    [embedding : Vecs \cup {None}]
        \cup [id : {Some(item_id) : item_id \in Ids},
              created_at : {Some(1)},
              content : {None, Some("c")},
              embedding : {None}]

\* the text of the chunk with the id
ContentOf(item_id) == IF item_id = 1 THEN "a" ELSE "b"

\* the records of the chunks collection
Chunks ==
    {[id |-> item.id, embedding |-> item.embedding,
      content |-> ContentOf(item.id), created_at |-> 0, updated_at |-> 0] :
         item \in Items}

\* the query vectors of the searches through the collection
CollQueries == {<<1, 0>>, <<0, 1>>}

IndexTypes == {"cosine", "ivf", "nsw"}

InitColl ==
    /\ Init
    /\ index = NewBruteForce

Finish(op, done) ==
    /\ store' = done.store
    /\ indexes' = done.indexes
    /\ trace' = done.trace
    /\ outcome' = [raised |-> done.raised, value |-> done.value]
    /\ lastOp' = op
    /\ nops' = nops + 1
    /\ UNCHANGED <<index, requests, running, registered, walk>>

AttachIndex(tag, ix) ==
    /\ lastOp.op = "init"
    /\ nops < MaxOps
    /\ Finish(CollOp("add_index", tag, NoItem),
              CollectionAddIndex(store, indexes, tag, ix))

CollAdd(item) ==
    /\ lastOp.op = "init"
    /\ nops < MaxOps
    /\ Finish(CollOp("coll_add", "", item),
              CollectionAdd(store, indexes, item))

CollUpdate(item_id, update_data) ==
    /\ lastOp.op = "init"
    /\ nops < MaxOps
    /\ Finish(CollOp("coll_update", "",
                     [id |-> item_id, embedding |-> update_data.embedding,
                      update_data |-> update_data]),
              CollectionUpdate(store, indexes, item_id, update_data))

CollDelete(item_id) ==
    /\ lastOp.op = "init"
    /\ nops < MaxOps
    /\ Finish(CollOp("coll_delete", "", [id |-> item_id, embedding |-> None]),
              CollectionDelete(store, indexes, item_id))

CollSearch(index_type, query, limit) ==
    /\ lastOp.op = "init"
    /\ LET done == CollectionSearch(store, indexes, index_type, query, limit)
       IN  /\ trace' = done.trace
           /\ outcome' = [raised |-> done.raised, value |-> done.value]
    /\ lastOp' = [CollOp("coll_search", index_type, NoItem)
                      EXCEPT !.query = query, !.limit = limit]
    /\ UNCHANGED <<index, nops, store, indexes, requests, running,
                   registered, walk>>

NextColl ==
    \/ Forget
    \/ \E a \in Attachable : AttachIndex(a[1], a[2])
    \/ \E item \in Chunks : CollAdd(item)
    \/ \E index_type \in IndexTypes, query \in CollQueries,
          limit \in 0..MaxLimit :
           CollSearch(index_type, query, limit)
    \/ \E item_id \in Ids, update_data \in Updates :
           CollUpdate(item_id, update_data)
    \/ \E item_id \in Ids : CollDelete(item_id)

SpecColl == InitColl /\ [][NextColl]_vars

---------------------------------------------------------------------------
(* Specification SpecServer: the chunk and query handlers of main.py under *)
(* requests that are in flight together.  `requests` holds the accepted    *)
(* requests, each with the index calls its handler has still to make;      *)
(* `running` is the request whose handler the event loop is executing (0   *)
(* when the loop is idle).  A handler is an `async def` whose body has no  *)
(* await, so the loop takes up another request only when the handler has   *)
(* returned or raised.  A call of an index method is entered and left in   *)
(* two steps, and takes effect when it is left.  `registered` is the       *)
(* Collection the `collections` dict holds under "chunks", which the query *)
(* handler searches: the object the global `chunks` names until a reset    *)
(* rebinds the global.                                                     *)

\* the indexes of the chunks collection, attached over an empty data
\* directory in the order of main.py
ServerIndexes ==
    LET brute == CollectionAddIndex(<<>>, <<>>, "cosine", NewBruteForce)
        ivf == CollectionAddIndex(<<>>, brute.indexes, "ivf", NewIVF(100))
        nsw == CollectionAddIndex(<<>>, ivf.indexes, "nsw", NewNSW(5))
    IN  nsw.indexes

ServerVecs == {<<1, 0>>, <<0, 1>>}

\* an accepted request whose handler has not started; `provider` is what
\* get_embeddings_bulk does when the handler calls it: "ok" when it returns
\* the vectors, "down" when it raises
Request(kind, item, index_type, query, limit, provider) ==
    [kind |-> kind, item |-> item, index_type |-> index_type,
     query |-> query, limit |-> limit, provider |-> provider,
     pc |-> "pending", calls |-> <<>>, found |-> <<>>, status |-> 0]

\* the vector get_embeddings_bulk returns for the content of a chunk
GetEmbeddingsBulk(content) == IF content = "a" THEN <<1, 0>> ELSE <<0, 1>>

\* an embedding the client did not supply is the one of the content of
\* the chunk
WithEmbedding(item) ==
    IF item.embedding = None /\ "content" \in DOMAIN item
    THEN [item EXCEPT !.embedding = GetEmbeddingsBulk(item.content)]
    ELSE item

\* the handler of the request reaches a failing call of the provider:
\* create_chunk and update_chunk call it for a chunk without an embedding
ProviderFails(req) ==
    /\ req.provider = "down"
    /\ req.kind \in {"create_chunk", "update_chunk"}
    /\ req.item.embedding = None

\* the search methods call the provider once the index holds vectors (and,
\* in IVFIndex, a partitioner)
SearchEmbeds(ix) ==
    /\ ix.embeddings # <<>>
    /\ ix.kind = "ivf" => ix.kmeans.state # "none"

\* the requests a client sends
Incoming ==
    {Request("create_chunk",
             [id |-> 1, embedding |-> v, content |-> ContentOf(1)],
             "", None, 0, "ok") : v \in ServerVecs}
        \cup {Request("update_chunk",
                      [id |-> 1, embedding |-> v, content |-> ContentOf(1)],
                      "", None, 0, "ok") : v \in ServerVecs}
        \cup {Request(kind,
                      [id |-> 1, embedding |-> None, content |-> ContentOf(1)],
                      "", None, 0, provider) :
                  kind \in {"create_chunk", "update_chunk"},
                  provider \in {"ok", "down"}}
        \cup {Request("delete_chunk", [NoItem EXCEPT !.id = 1], "", None, 0,
                      "ok")}
        \cup {Request("reset", NoItem, "", None, 0, "ok")}
        \cup {Request("query", NoItem, index_type, <<1, 0>>, 1, provider) :
                  index_type \in IndexTypes, provider \in {"ok", "down"}}

\* the calls Collection.add, update and delete make on the attached indexes,
\* in attach order, and the one call of Collection.search
CallsOf(kind, idxs, index_type) ==
    LET Each(method) == [i \in DOMAIN idxs |-> <<method, idxs[i][1]>>]
        RECURSIVE Both(_)
        Both(i) ==
            IF i > Len(idxs) THEN <<>>
            ELSE <<<<"remove", idxs[i][1]>>, <<"add", idxs[i][1]>>>>
                     \o Both(i + 1)
    IN  CASE kind = "create_chunk" -> Each("add")
          [] kind = "update_chunk" -> Both(1)
          [] kind = "delete_chunk" -> Each("remove")
          [] kind = "query" -> <<<<"search", index_type>>>>
          [] OTHER -> <<>>

\* a handler that runs in a thread of its own
CanRunThreaded(r) == TRUE

\* the event loop executes the handler of r: no other handler has started
\* and not yet returned
CanRun(r) == running \in {0, r}

InitServer ==
    /\ index = NewBruteForce
    /\ lastOp = Op("init", NoItem, <<>>, None, 0)
    /\ outcome = Found(<<>>)
    /\ nops = 0
    /\ store = <<>>
    /\ indexes = ServerIndexes
    /\ trace = <<>>
    /\ requests = <<>>
    /\ running = 0
    /\ registered = SameCollection
    /\ walk = Idle

\* the server accepts a request
Accept(request) ==
    /\ Len(requests) < MaxRequests
    /\ requests' = Append(requests, request)
    /\ UNCHANGED <<index, lastOp, outcome, nops, store, indexes, trace,
                   running, registered, walk>>

\* the record files written before the provider is asked for the embedding
StoreBeforeEmbedding(files, req, refused) ==
    IF refused \notin {0, 500} THEN files
    ELSE IF req.kind \in {"create_chunk", "update_chunk"}
    THEN SaveRecord(files, req.item)
    ELSE files

\* the record files when the handler has run up to its first index call:
\* Collection.add and Collection.update write the file of the record, which
\* carries the embedding of the provider when the client supplied none; a
\* handler that has raised has written nothing
StoreAfterDispatch(files, req, refused) ==
    IF refused # 0 THEN files
    ELSE IF req.kind \in {"create_chunk", "update_chunk"}
    THEN SaveRecord(files, WithEmbedding(req.item))
    ELSE files

\* the handler runs up to its first call of an index method: update_chunk
\* answers 404 for a missing chunk and query 400 for a tag that is not
\* attached; create_chunk and update_chunk ask the provider for the
\* embedding the client did not supply, and its exception ends the handler
\* with status 500; Collection.add and Collection.update write the record
\* file
Dispatch(r) ==
    /\ requests[r].pc = "pending"
    /\ requests[r].kind # "reset"
    /\ CanRun(r)
    /\ LET req == requests[r]
           refused ==
               IF req.kind = "update_chunk" /\ ~DictHas(store, req.item.id)
               THEN 404
               ELSE IF req.kind = "query"
                         /\ ~DictHas(QueriedIndexes, req.index_type)
               THEN 400
               ELSE IF ProviderFails(req) THEN 500
               ELSE 0
       IN  /\ store' = StoreAfterDispatch(store, req, refused)
           /\ IF refused # 0
              THEN /\ requests' = [requests EXCEPT ![r].pc = "done",
                                                  ![r].status = refused]
                   /\ UNCHANGED running
              ELSE /\ requests' =
                          [requests EXCEPT
                               ![r].pc = "running",
                               ![r].item = WithEmbedding(req.item),
                               ![r].calls =
                                   CallsOf(req.kind,
                                           IF req.kind = "query"
                                           THEN QueriedIndexes ELSE indexes,
                                           req.index_type)]
                   /\ running' = r
    /\ UNCHANGED <<index, lastOp, outcome, nops, indexes, trace,
                   registered, walk>>

\* the collections _reset leaves: the global `chunks` names a new
\* Collection without indexes, and `collections["chunks"]` still holds the
\* Collection it was given when the module was loaded
ResetCollections(idxs, reg) ==
    [indexes |-> <<>>,
     registered |-> IF reg.aliased THEN OtherCollection(idxs) ELSE reg]

\* the reset handler: init_collections removes the data directory and
\* makes new Collection objects, _reset binds the globals to them
Reset(r) ==
    /\ requests[r].pc = "pending"
    /\ requests[r].kind = "reset"
    /\ CanRun(r)
    /\ store' = <<>>
    /\ indexes' = ResetCollections(indexes, registered).indexes
    /\ registered' = ResetCollections(indexes, registered).registered
    /\ requests' = [requests EXCEPT ![r].pc = "done", ![r].status = 200]
    /\ UNCHANGED <<index, lastOp, outcome, nops, trace, running, walk>>

\* the handler enters the next index method
EnterIndex(r) ==
    /\ requests[r].pc = "running"
    /\ requests[r].calls # <<>>
    /\ CanRun(r)
    /\ requests' = [requests EXCEPT ![r].pc = "in_index"]
    /\ UNCHANGED <<index, lastOp, outcome, nops, store, indexes, trace,
                   running, registered, walk>>

\* the index method returns or raises; an exception ends the handler with
\* status 500.  A search asks the provider for the embedding of the query
\* text, and raises what the provider raises
LeaveIndex(r) ==
    /\ requests[r].pc = "in_index"
    /\ CanRun(r)
    /\ LET req == requests[r]
           method == Head(req.calls)[1]
           tag == Head(req.calls)[2]
           ix == IF method = "search" THEN DictGet(QueriedIndexes, tag)
                 ELSE DictGet(indexes, tag)
           done == CASE method = "add" -> IndexAdd(ix, req.item)
                     [] method = "remove" -> IndexRemove(ix, req.item.id)
                     [] OTHER ->
                            IF req.provider = "down" /\ SearchEmbeds(ix)
                            THEN Ret(ix, "ProviderError")
                            ELSE Ret(ix, IndexSearch(ix, req.query,
                                                     req.limit).raised)
           found == IF method = "search" /\ done.raised = "none"
                    THEN IndexSearch(ix, req.query, req.limit).value
                    ELSE <<>>
       IN  /\ indexes' = IF method = "search" THEN indexes
                         ELSE DictSet(indexes, tag, done.ix)
           /\ IF done.raised # "none"
              THEN /\ requests' = [requests EXCEPT ![r].pc = "done",
                                                  ![r].calls = <<>>,
                                                  ![r].status = 500]
                   /\ running' = 0
              ELSE /\ requests' = [requests EXCEPT
                                       ![r].pc = "running",
                                       ![r].calls = Tail(req.calls),
                                       ![r].found = found]
                   /\ UNCHANGED running
    /\ UNCHANGED <<index, lastOp, outcome, nops, store, trace,
                   registered, walk>>

\* the handler returns after its last index call: delete_chunk unlinks the
\* file and answers 404 when there was none, query joins the results with
\* the record files
Respond(r) ==
    /\ requests[r].pc = "running"
    /\ requests[r].calls = <<>>
    /\ CanRun(r)
    /\ LET req == requests[r]
           status == CASE req.kind = "create_chunk" -> 201
                       [] req.kind = "update_chunk" -> 200
                       [] req.kind = "delete_chunk" ->
                              IF DictHas(store, req.item.id) THEN 204
                              ELSE 404
                       [] OTHER -> 200
       IN  /\ requests' =
                  [requests EXCEPT
                       ![r].pc = "done",
                       ![r].status = status,
                       ![r].found = IF req.kind = "query"
                                    THEN FullResults(store, req.found)
                                    ELSE <<>>]
           /\ store' = IF req.kind = "delete_chunk"
                       THEN DictDel(store, req.item.id)
                       ELSE store
    /\ running' = 0
    /\ UNCHANGED <<index, lastOp, outcome, nops, indexes, trace,
                   registered, walk>>

NextServer ==
    \/ \E request \in Incoming : Accept(request)
    \/ \E r \in DOMAIN requests : Dispatch(r)
    \/ \E r \in DOMAIN requests : Reset(r)
    \/ \E r \in DOMAIN requests : EnterIndex(r)
    \/ \E r \in DOMAIN requests : LeaveIndex(r)
    \/ \E r \in DOMAIN requests : Respond(r)

SpecServer == InitServer /\ [][NextServer]_vars

---------------------------------------------------------------------------
(* Properties checked under Spec.                                          *)

StoredIds(ix) == DictKeys(ix.embeddings)

\* the ids held in the IVF cluster lists
ClusterMembers(ix) ==
    UNION {SeqToSet(ix.cluster_assignments[i][2]) :
               i \in DOMAIN ix.cluster_assignments}

GraphNodes(ix) == DictKeys(ix.graph)

Min(a, b) == IF a < b THEN a ELSE b

\* C1: every id in an IVF cluster member list, and every NSW graph node,
\* has a vector stored under the same id in the embedding map.
C1_MembersHaveVectors ==
    /\ index.kind = "ivf" => ClusterMembers(index) \subseteq StoredIds(index)
    /\ index.kind = "nsw" => GraphNodes(index) \subseteq StoredIds(index)

\* C2: in IVFIndex no id is a member of two clusters and no id occurs twice
\* in one cluster member list.
C2_MembersUnique ==
    index.kind = "ivf" =>
        \A i, j \in DOMAIN index.cluster_assignments :
            \A a \in DOMAIN index.cluster_assignments[i][2],
               b \in DOMAIN index.cluster_assignments[j][2] :
                (index.cluster_assignments[i][2][a]
                     = index.cluster_assignments[j][2][b])
                    => (i = j /\ a = b)

\* the stored vectors all have dimension D and the record's embedding has not
DimensionDiffers(ix, item) ==
    /\ item.embedding # None
    /\ ix.embeddings # <<>>
    /\ \A i, j \in DOMAIN ix.embeddings :
           Len(ix.embeddings[i][2]) = Len(ix.embeddings[j][2])
    /\ Len(ix.embeddings[1][2]) # Len(item.embedding)

\* C3: on every index, add of a record whose embedding dimension differs
\* from the dimension of the stored vectors fails and leaves the index as it
\* was before the call.
C3_DimensionGuard ==
    [][(lastOp'.op = "add" /\ DimensionDiffers(index, lastOp'.item))
           => (outcome'.raised # "none" /\ index' = index)]_vars

\* C4: search never gives a stored zero-norm vector a non-zero similarity,
\* and never lists it ahead of a result whose similarity is non-zero.
C4_ZeroNormHandling ==
    (lastOp.op = "search" /\ outcome.raised = "none") =>
        \A i \in DOMAIN outcome.value :
            (/\ DictHas(index.embeddings, outcome.value[i].id)
             /\ NormSq(DictGet(index.embeddings, outcome.value[i].id)) = 0)
                => /\ SimIsZero(outcome.value[i].confidence)
                   /\ \A j \in DOMAIN outcome.value :
                          j > i => SimIsZero(outcome.value[j].confidence)

\* a is a multiple of b or b of a (2-d and 3-d vectors of one length)
Parallel(a, b) ==
    /\ Len(a) = Len(b)
    /\ \A i, j \in DOMAIN a : a[i] * b[j] = a[j] * b[i]

\* the stored vectors are non-zero, of one dimension and pairwise non-parallel
SelfHitCase(ix) ==
    /\ ix.kind = "nsw"
    /\ ix.n_neighbors = 5
    /\ ix.embeddings # <<>>
    /\ GraphNodes(ix) = StoredIds(ix)
    /\ \A i, j \in DOMAIN ix.embeddings :
           /\ NormSq(ix.embeddings[i][2]) # 0
           /\ Len(ix.embeddings[i][2]) = Len(ix.embeddings[j][2])
           /\ i # j => ~Parallel(ix.embeddings[i][2], ix.embeddings[j][2])

\* C5: in an NSWIndex (M = 5) over pairwise non-parallel non-zero vectors,
\* a search for the vector of an indexed id i with k = 1 returns i with
\* similarity 1.0, from whichever entry node.
C5_NSWSelfHit ==
    SelfHitCase(index) =>
        \A i \in DOMAIN index.embeddings, entry_point \in GraphNodes(index) :
            LET found == NSWSearchFrom(index, index.embeddings[i][2], 1,
                                       entry_point)
            IN  /\ found.raised = "none"
                /\ Len(found.value) = 1
                /\ found.value[1].id = index.embeddings[i][1]
                /\ SimIsOne(found.value[1].confidence)

\* the records of a snapshot that carry an embedding
Embedded(items) == {i \in DOMAIN items : items[i].embedding # None}

OutDegree(ix, i) == Cardinality(ix.graph[i][2])

\* C6 (as claimed): after NSWIndex.rebuild on N >= 2 records with
\* embeddings every graph node has at least min(M, N - 1) out-neighbors.
C6_RebuildDegree ==
    (/\ lastOp.op = "rebuild"
     /\ index.kind = "nsw"
     /\ Cardinality(Embedded(lastOp.items)) >= 2)
        => \A i \in DOMAIN index.graph :
               OutDegree(index, i)
                   >= Min(index.n_neighbors,
                          Cardinality(Embedded(lastOp.items)) - 1)

\* the other records of the snapshot whose vector has a non-zero norm
NonZeroOthers(items, item_id) ==
    {i \in Embedded(items) :
        items[i].id # item_id /\ NormSq(items[i].embedding) # 0}

\* C6 (amended): after NSWIndex.rebuild every graph node has at least
\* min(M, Z) out-neighbors, Z the number of other records of the snapshot
\* whose vector has a non-zero norm.
C6_RebuildDegreeNonZero ==
    (/\ lastOp.op = "rebuild"
     /\ index.kind = "nsw"
     /\ Cardinality(Embedded(lastOp.items)) >= 2)
        => \A i \in DOMAIN index.graph :
               OutDegree(index, i)
                   >= Min(index.n_neighbors,
                          Cardinality(NonZeroOthers(lastOp.items,
                                                    index.graph[i][1])))

\* a rebuild of an NSWIndex with M = 1 on three records, one of them
\* zero-norm, that linked every node, the zero-norm one included
C6_Witness ==
    /\ lastOp.op = "rebuild"
    /\ index.kind = "nsw"
    /\ index.n_neighbors = 1
    /\ outcome.raised = "none"
    /\ Cardinality(Embedded(lastOp.items)) = 3
    /\ Len(index.graph) = 3
    /\ \E i \in DOMAIN index.graph :
           NormSq(DictGet(index.embeddings, index.graph[i][1])) = 0
    /\ \A i \in DOMAIN index.graph : OutDegree(index, i) >= 1

\* the tags of the attached indexes, in the order of the indexes dict
AttachOrder == [i \in DOMAIN indexes |-> indexes[i][1]]

Mutations == {"coll_add", "coll_update", "coll_delete"}

\* the calls were made on the indexes alone, index by index in the order of
\* the dict (per calls on each), on all of them unless one raised
NotifiedInOrder(calls, per) ==
    /\ \A i \in DOMAIN calls :
           /\ calls[i].target # "store"
           /\ (i + per - 1) \div per <= Len(AttachOrder)
           /\ calls[i].target = AttachOrder[(i + per - 1) \div per]
    /\ outcome.raised = "none" => Len(calls) = per * Len(AttachOrder)

\* the first call wrote the store, the calls after it notified the indexes
StoreThenIndexes(per) ==
    /\ trace[1].target = "store"
    /\ NotifiedInOrder(Tail(trace), per)

\* C7 (as claimed): add, update and delete of a Collection touch the store
\* first and then notify the attached indexes in the order in which they
\* were attached.
C7_StoreFirst ==
    (lastOp.op \in Mutations /\ trace # <<>>) =>
        StoreThenIndexes(IF lastOp.op = "coll_update" THEN 2 ELSE 1)

\* C7 (amended): add and update write the record first, so that it is in
\* the store even when an index raises, and then notify the indexes in the
\* order of the dict; delete notifies the indexes in that order first and
\* unlinks the file of the record last.
C7_StoreFirstButDelete ==
    /\ (lastOp.op \in {"coll_add", "coll_update"} /\ trace # <<>>) =>
           /\ StoreThenIndexes(IF lastOp.op = "coll_update" THEN 2 ELSE 1)
           /\ DictHas(store, lastOp.item.id)
           /\ DictGet(store, lastOp.item.id) = outcome.value
    /\ lastOp.op = "coll_delete" =>
           /\ trace # <<>>
           /\ NotifiedInOrder(SubSeq(trace, 1, Len(trace) - 1), 1)
           /\ trace[Len(trace)] = Event("unlink", "store")
           /\ ~DictHas(store, lastOp.item.id)

\* a delete of a stored record from a Collection with two indexes
C7_Witness ==
    /\ lastOp.op = "coll_delete"
    /\ outcome.value = TRUE
    /\ Len(indexes) = 2
    /\ Len(trace) = 3

\* C8: rebuild(S) followed by rebuild(S) yields the index state of a single
\* rebuild(S), in whatever state the index was before.
C8_RebuildIdempotent ==
    lastOp.op = "rebuild" =>
        /\ IndexRebuild(index, lastOp.items).ix = index
        /\ IndexRebuild(index, lastOp.items).raised = outcome.raised

\* a rebuild on a snapshot with embeddings, of an index that earlier calls
\* had left in another state
C8_Witness ==
    /\ lastOp.op = "rebuild"
    /\ nops >= 3
    /\ Cardinality(StoredIds(index)) = 2
    /\ index.kind = "ivf"
    /\ Len(index.kmeans.centers) = 2

\* C9: for a record r whose id is not in the index, add(r) followed by
\* remove(r.id) leaves every search result as it was before the add.
C9_AddRemoveCancels ==
    [][(lastOp'.op = "add" /\ lastOp'.item.id \notin StoredIds(index))
           => \A query_vec \in Queries, limit \in 0..MaxLimit :
                  IndexSearch(IndexRemove(index', lastOp'.item.id).ix,
                              query_vec, limit)
                      = IndexSearch(index, query_vec, limit)]_vars

\* the number of vectors the embedding map holds for an id
VectorCount(ix, item_id) ==
    Cardinality({i \in DOMAIN ix.embeddings : ix.embeddings[i][1] = item_id})

\* after a re-add of item: one vector, the record's, and in NSWIndex the
\* out-neighbors are the M nearest of the new vector
ReAdded(ix, item) ==
    /\ VectorCount(ix, item.id) = 1
    /\ DictGet(ix.embeddings, item.id) = item.embedding
    /\ ix.kind = "nsw" =>
           LET nearest == NSWFindNearestNeighbors(ix.embeddings, item.id,
                                                  item.embedding,
                                                  ix.n_neighbors)
           IN  /\ nearest.raised = "none"
               /\ DictHas(ix.graph, item.id)
               /\ DictGet(ix.graph, item.id) = ResultIds(nearest.value)

C11_AddSymmetric ==
    (/\ lastOp.op = "add"
     /\ index.kind = "nsw"
     /\ outcome.raised = "none"
     /\ lastOp.item.embedding # None)
        => \A v \in DictGet(index.graph, lastOp.item.id) :
               /\ DictHas(index.graph, v)
               /\ lastOp.item.id \in DictGet(index.graph, v)

\* C12: on each index remove(x) takes x out of the stored vectors, and in
\* every state a search returns only ids whose vector is stored; so no
\* result contains x from remove(x) until x is added again.
C12_RemovedNotFound ==
    /\ lastOp.op = "remove" => lastOp.item.id \notin StoredIds(index)
    /\ (lastOp.op = "search" /\ outcome.raised = "none") =>
           \A i \in DOMAIN outcome.value :
               outcome.value[i].id \in StoredIds(index)

\* a remove from an IVFIndex that left the removed id in a member list, with
\* another vector stored that a search returns
C12_Witness ==
    /\ lastOp.op = "remove"
    /\ index.kind = "ivf"
    /\ lastOp.item.id \in ClusterMembers(index)
    /\ \E query_vec \in Queries :
           LET found == IndexSearch(index, query_vec, 1)
           IN  found.raised = "none" /\ found.value # <<>>

\* the positions of the map whose vector has a non-zero norm
NonZeroStored(ix) ==
    {i \in DOMAIN ix.embeddings : NormSq(ix.embeddings[i][2]) # 0}

\* value is the list of the k most similar non-zero-norm vectors of the map,
\* each once and with its cosine similarity to the query, most similar first
TrueTopK(ix, query_vec, k, value) ==
    /\ Len(value) = Min(k, Cardinality(NonZeroStored(ix)))
    /\ \A i \in DOMAIN value :
           \E p \in NonZeroStored(ix) :
               /\ ix.embeddings[p][1] = value[i].id
               /\ DotDefined(query_vec, ix.embeddings[p][2])
               /\ value[i].confidence = RawCosine(query_vec, ix.embeddings[p][2])
    /\ \A i, j \in DOMAIN value :
           /\ i # j => value[i].id # value[j].id
           /\ i < j => ~SimLT(value[i].confidence, value[j].confidence)
    /\ \A p \in NonZeroStored(ix) :
           (\A i \in DOMAIN value : value[i].id # ix.embeddings[p][1])
               => /\ DotDefined(query_vec, ix.embeddings[p][2])
                  /\ \A i \in DOMAIN value :
                         ~SimLT(value[i].confidence,
                                RawCosine(query_vec, ix.embeddings[p][2]))

\* C13: for every stored map, every query and every k >= 0 the brute-force
\* search returns the true top-k of the stored non-zero-norm vectors, ordered
\* non-increasingly by cosine similarity.
C13_BruteForceExact ==
    (lastOp.op = "search" /\ index.kind = "cosine") =>
        /\ outcome.raised = "none"
        /\ TrueTopK(index, lastOp.query, lastOp.limit, outcome.value)

\* the cluster ids a search with the query probes
ProbedClusters(ix, query_vec) == SeqToSet(IVFProbed(ix, query_vec))

\* the cluster ids in whose member list the id occurs
ClustersOf(ix, item_id) ==
    {ix.cluster_assignments[i][1] :
        i \in {h \in DOMAIN ix.cluster_assignments :
                  item_id \in SeqToSet(ix.cluster_assignments[h][2])}}

\* C14: every id IVFIndex.search returns is a member of a probed cluster
\* and of no cluster that was not probed.
C14_IVFLocality ==
    (lastOp.op = "search" /\ index.kind = "ivf" /\ outcome.raised = "none") =>
        \A i \in DOMAIN outcome.value :
            /\ ClustersOf(index, outcome.value[i].id) # {}
            /\ ClustersOf(index, outcome.value[i].id)
                   \subseteq ProbedClusters(index, lastOp.query)

\* the index is in the state its constructor leaves
Fresh(ix) ==
    ix \in {NewBruteForce, NewIVF(ix.n_clusters), NewNSW(ix.n_neighbors)}

\* C15: on a freshly constructed index of each kind, and on one rebuilt
\* from the empty snapshot, search returns the empty list for every query
\* and every k.
C15_EmptyIndexFindsNothing ==
    (Fresh(index) \/ (lastOp.op = "rebuild" /\ lastOp.items = <<>>)) =>
        \A query_vec \in Queries, limit \in 0..MaxLimit :
            IndexSearch(index, query_vec, limit) = Found(<<>>)

\* an IVFIndex rebuilt from the empty snapshot after it had been trained
C15_Witness ==
    /\ lastOp.op = "rebuild"
    /\ lastOp.items = <<>>
    /\ index.kind = "ivf"
    /\ index.kmeans.state = "fitted"

\* the index as its constructor leaves it, of the class and with the
\* parameters of ix
FreshLike(ix) ==
    CASE ix.kind = "cosine" -> NewBruteForce
      [] ix.kind = "ivf" -> NewIVF(ix.n_clusters)
      [] ix.kind = "nsw" -> NewNSW(ix.n_neighbors)

\* C16: add_index(tag, index) leaves under the tag the index rebuilt from the
\* records stored at that moment, there is one index per tag, so that an
\* attach of an attached tag replaces the prior index, and a search for the
\* tag is answered by the index under the tag.
C16_AttachRebuildsAndReplaces ==
    /\ \A i, j \in DOMAIN indexes : indexes[i][1] = indexes[j][1] => i = j
    /\ lastOp.op = "add_index" =>
           /\ DictHas(indexes, lastOp.tag)
           /\ LET attached == DictGet(indexes, lastOp.tag)
                  built == IndexRebuild(FreshLike(attached), ListAll(store))
              IN  /\ attached = built.ix
                  /\ outcome.raised = built.raised
    /\ (lastOp.op = "coll_search" /\ DictHas(indexes, lastOp.tag)) =>
           LET found == IndexSearch(DictGet(indexes, lastOp.tag),
                                    lastOp.query, lastOp.limit)
           IN  /\ trace = <<Event("search", lastOp.tag)>>
               /\ outcome.raised = found.raised
               /\ found.raised = "none" =>
                      outcome.value = FullResults(store, found.value)

\* an attach of a tag that was attached before, behind which another tag was
\* attached, to a collection that holds records with embeddings
C16_Witness ==
    /\ lastOp.op = "add_index"
    /\ Len(indexes) = 2
    /\ indexes[1][1] = lastOp.tag
    /\ indexes[1][2].embeddings # <<>>

\* C17: after Collection.update of a stored record with an embedding other
\* than the stored one, every attached index holds exactly one vector for
\* the id, the embedding of the updated record.
C17_UpdateRewritesVector ==
    [][(/\ lastOp'.op = "coll_update"
        /\ DictHas(store, lastOp'.item.id)
        /\ lastOp'.item.embedding # None
        /\ lastOp'.item.embedding # Get(store, lastOp'.item.id).embedding)
           => \A i \in DOMAIN indexes' :
                  /\ VectorCount(indexes'[i][2], lastOp'.item.id) = 1
                  /\ DictGet(indexes'[i][2].embeddings, lastOp'.item.id)
                         = lastOp'.item.embedding]_vars

\* value lists, in the order of found and with its confidences, the results
\* of found whose record is in files, each with the content of the record
JoinOf(value, found, files) ==
    LET kept == {i \in DOMAIN found : DictHas(files, found[i].id)}
        Pos(j) == CHOOSE i \in kept : Cardinality({h \in kept : h <= i}) = j
    IN  /\ Len(value) = Cardinality(kept)
        /\ \A j \in DOMAIN value :
               /\ value[j].id = found[Pos(j)].id
               /\ value[j].confidence = found[Pos(j)].confidence
               /\ value[j].content = DictGet(files, value[j].id).content

\* C18: Collection.search returns the results of the named index whose
\* record is in the store, in the order and with the confidence the index
\* gave, each with the content of its record; the same holds of the join
\* when a record has vanished from the store after the index was built.
C18_SearchJoinsStore ==
    (lastOp.op = "coll_search" /\ outcome.raised = "none") =>
        LET found == IndexSearch(DictGet(indexes, lastOp.tag), lastOp.query,
                                 lastOp.limit).value
        IN  /\ JoinOf(outcome.value, found, store)
            /\ \A gone \in Ids :
                   LET files == DictDel(store, gone)
                       done == CollectionSearch(files, indexes, lastOp.tag,
                                                lastOp.query, lastOp.limit)
                   IN  /\ done.raised = "none"
                       /\ JoinOf(done.value, found, files)
                       /\ \A j \in DOMAIN done.value : done.value[j].id # gone

\* a search through the collection that returned two records
C18_Witness ==
    /\ lastOp.op = "coll_search"
    /\ outcome.raised = "none"
    /\ Len(outcome.value) = 2
    /\ outcome.value[1].content # outcome.value[2].content
    /\ SimLT(outcome.value[2].confidence, outcome.value[1].confidence)

\* C19: Collection.search with a tag that is not attached fails (KeyError)
\* before any index is searched and changes neither the store nor the
\* indexes; the query endpoint answers such a request with status 400.
C19_UnknownIndex ==
    [][(lastOp'.op = "coll_search" /\ ~DictHas(indexes, lastOp'.tag))
           => /\ outcome'.raised = "KeyError"
              /\ trace' = <<>>
              /\ store' = store
              /\ indexes' = indexes
              /\ QueryStatus(store, indexes, lastOp'.tag, lastOp'.query,
                             lastOp'.limit) = 400]_vars

\* a search for a tag that is not attached, through a collection that holds
\* records and has another index attached
C19_Witness ==
    /\ lastOp.op = "coll_search"
    /\ outcome.raised = "KeyError"
    /\ indexes # <<>>
    /\ store # <<>>

\* the requests whose handler is inside a method of the index under the tag
Executing(tag) ==
    {r \in DOMAIN requests :
         /\ requests[r].pc = "in_index"
         /\ Head(requests[r].calls)[2] = tag}

\* C20: with requests in flight together, two handlers are inside methods
\* of one index at the same time only when both are inside search.
C20_ReadersWriters ==
    \A tag \in IndexTypes : \A r1, r2 \in Executing(tag) :
        r1 # r2 => /\ Head(requests[r1].calls)[1] = "search"
                   /\ Head(requests[r2].calls)[1] = "search"

\* a handler is inside add or remove of an index while a query on that
\* index and another mutation have been accepted and wait
C20_Witness ==
    \E r1, r2, r3 \in DOMAIN requests :
        /\ requests[r1].pc = "in_index"
        /\ Head(requests[r1].calls)[1] \in {"add", "remove"}
        /\ requests[r2].pc = "pending"
        /\ requests[r2].kind = "query"
        /\ requests[r2].index_type = Head(requests[r1].calls)[2]
        /\ requests[r3].pc = "pending"
        /\ requests[r3].kind \in {"create_chunk", "delete_chunk"}

\* the handler of the request has met, or will meet, a failing call of
\* the provider
MeetsFailure(req) ==
    \/ ProviderFails(req)
    \/ /\ req.kind = "query"
       /\ req.provider = "down"
       /\ DictHas(QueriedIndexes, req.index_type)
       /\ SearchEmbeds(DictGet(QueriedIndexes, req.index_type))

\* C21: a handler in which the embedding provider fails (create_chunk,
\* update_chunk, query) ends with status 500, and none of its steps changes
\* the record files or an attached index.
C21_ProviderFailureChangesNothing ==
    [][\A r \in DOMAIN requests :
           (MeetsFailure(requests[r]) /\ requests'[r] # requests[r]
                /\ ~(requests[r].kind = "update_chunk"
                         /\ ~DictHas(store, requests[r].item.id)))
               => /\ store' = store
                  /\ indexes' = indexes
                  /\ requests'[r].pc = "done" => requests'[r].status = 500]_vars

\* the provider has failed in a create_chunk, in an update_chunk and in a
\* query on an index that holds a vector
C21_Witness ==
    /\ store # <<>>
    /\ \E r1, r2, r3 \in DOMAIN requests :
        /\ requests[r1].kind = "create_chunk"
        /\ requests[r2].kind = "update_chunk"
        /\ requests[r3].kind = "query"
        /\ \A r \in {r2, r3} :
               /\ requests[r].provider = "down"
               /\ requests[r].pc = "done"
               /\ requests[r].status = 500

\* C22: Collection.update of a stored record keeps its id and created_at,
\* whatever keys the update data carries, keeps every field whose update
\* value is None, and leaves the record stored under the same id.
C22_UpdateKeepsIdentity ==
    [][(lastOp'.op = "coll_update" /\ DictHas(store, lastOp'.item.id))
           => LET item_id == lastOp'.item.id
                  update_data == lastOp'.item.update_data
                  before == Get(store, item_id)
              IN  /\ DictKeys(store') = DictKeys(store)
                  /\ Get(store', item_id).id = item_id
                  /\ Get(store', item_id).created_at = before.created_at
                  /\ \A key \in DOMAIN before \ {"updated_at"} :
                         (key \in DOMAIN update_data
                              => update_data[key] = None)
                             => Get(store', item_id)[key] = before[key]]_vars

\* an update whose data names another id and another created_at, and a
\* content of None, has been applied to a stored record
C22_Witness ==
    /\ lastOp.op = "coll_update"
    /\ DictHas(store, lastOp.item.id)
    /\ DOMAIN lastOp.item.update_data
           = {"id", "created_at", "content", "embedding"}
    /\ lastOp.item.update_data.id # Some(lastOp.item.id)
    /\ lastOp.item.update_data.content = None
    /\ Get(store, lastOp.item.id).updated_at = 1

\* the nodes a walk along the out-neighbor sets reaches from the nodes of
\* `seen`
RECURSIVE ReachableFrom(_, _)
ReachableFrom(ix, seen) ==
    LET next == UNION {DictGet(ix.graph, n) :
                           n \in seen \cap DictKeys(ix.graph)}
    IN  IF next \subseteq seen THEN seen
        ELSE ReachableFrom(ix, seen \cup next)

\* C23: a search of an NSW index for a non-zero query returns limit results
\* when at least limit nodes are reachable from the entry node (the loop
\* stops early only on the greedy condition, or when no candidate is left).
C23_SearchFillsLimit ==
    (/\ lastOp.op = "search"
     /\ index.kind = "nsw"
     /\ outcome.raised = "none"
     /\ NormSq(lastOp.query) # 0
     /\ index.graph # <<>>
     /\ Cardinality(ReachableFrom(index, {index.graph[1][1]})) >= lastOp.limit)
        => Len(outcome.value) = lastOp.limit

\* the ids in the out-neighbor sets of the graph
NeighborIds(ix) == UNION {ix.graph[i][2] : i \in DOMAIN ix.graph}

\* C24: in an NSW index every out-neighbor is a graph node, the graph nodes
\* are the keys of the embedding map, and no search fails on the entry node
\* or on the vector of a neighbor.
C24_GraphClosed ==
    index.kind = "nsw"
        => /\ NeighborIds(index) \subseteq GraphNodes(index)
           /\ GraphNodes(index) = StoredIds(index)
           /\ lastOp.op = "search"
                  => outcome.raised \notin {"StopIteration", "KeyError"}

\* C25: after IVFIndex.rebuild on a snapshot without any embedding the
\* index holds no vector, no cluster list and no partitioner.
C25_EmptyRebuildUntrains ==
    (/\ lastOp.op = "rebuild"
     /\ index.kind = "ivf"
     /\ Embedded(lastOp.items) = {})
        => /\ index.embeddings = <<>>
           /\ index.cluster_assignments = <<>>
           /\ index.kmeans = NoKMeans

\* C26: IVFIndex.add of a record with an embedding on an untrained index
\* returns, for every n_clusters: the index then has a partitioner with one
\* centroid, lists the id in a cluster and holds its vector.
C26_FirstAddTrains ==
    [][(/\ lastOp'.op = "add"
        /\ index.kind = "ivf"
        /\ index.kmeans = NoKMeans
        /\ lastOp'.item.embedding # None)
           => /\ outcome'.raised = "none"
              /\ index'.kmeans.state = "fitted"
              /\ Len(index'.kmeans.centers) = 1
              /\ lastOp'.item.id \in ClusterMembers(index')
              /\ DictHas(index'.embeddings, lastOp'.item.id)
              /\ DictGet(index'.embeddings, lastOp'.item.id)
                     = lastOp'.item.embedding]_vars

\* the ids of the stored records that carry an embedding
EmbeddedIds(files) ==
    {item_id \in DictKeys(files) : Get(files, item_id).embedding # None}

\* C27: on a collection with the brute-force, the IVF and the NSW index
\* attached, every index holds the ids of the stored records that carry an
\* embedding, and no other id.
C27_IndexesAgree ==
    DictKeys(indexes) = IndexTypes
        => \A i \in DOMAIN indexes :
               StoredIds(indexes[i][2]) = EmbeddedIds(store)

\* C28: the collection the query endpoint searches is the collection the
\* chunk handlers act on, and it has the cosine, the IVF and the NSW index
\* attached, also after a reset.
C28_ResetKeepsCollection ==
    /\ registered.aliased
    /\ DictKeys(indexes) = IndexTypes

\* C29: a search of an IVF index that gets as far as the probing probes
\* min(3, number of centroids) clusters, the ones whose centroids are the
\* nearest to the query.
C29_ProbeCount ==
    (/\ lastOp.op = "search"
     /\ index.kind = "ivf"
     /\ outcome.raised = "none"
     /\ index.kmeans.state = "fitted"
     /\ index.embeddings # <<>>)
        => IVFProbed(index, lastOp.query)
               = Take(ArgSortDists(index.kmeans.centers, lastOp.query),
                      Min(NProbe, Len(index.kmeans.centers)))

\* C30: the result list of a search, on each of the three indexes, holds
\* every id at most once.
C30_ResultsDistinct ==
    (lastOp.op = "search" /\ outcome.raised = "none")
        => \A i, j \in DOMAIN outcome.value :
               outcome.value[i].id = outcome.value[j].id => i = j

\* C31: a search of an NSW index ends (it returns or raises); meanwhile
\* its loop has run at most as often as the graph has nodes, and every
\* candidate it holds or has chosen is a visited node that occurs once.
C31_SearchTerminates ==
    /\ [](walk.pc \in {"loop", "break"}
              => /\ walk.iterations <= Cardinality(GraphNodes(index))
                 /\ LET seen == [i \in 1..(Len(walk.candidates)
                                              + Len(walk.best_candidates)) |->
                                    IF i <= Len(walk.candidates)
                                    THEN walk.candidates[i].id
                                    ELSE walk.best_candidates[
                                             i - Len(walk.candidates)].id]
                    IN  /\ SeqToSet(seen) \subseteq walk.visited
                        /\ \A i, j \in DOMAIN seen :
                               seen[i] = seen[j] => i = j)
    /\ (walk.pc = "loop") ~> (walk.pc = "done")

\* a search over a graph of three nodes, with an edge from the entry node,
\* has gone through the loop and has returned what NSWIndex.search returns
C31_Witness ==
    /\ walk.pc = "done"
    /\ walk.iterations >= 1
    /\ Cardinality(GraphNodes(index)) = 3
    /\ index.graph[1][2] # {}
    /\ lastOp.limit = 2
    /\ outcome = NSWSearch(index, lastOp.query, lastOp.limit)

====
